---- MODULE Spec2Model ----
(***************************************************************************)
(* QuickDeck acquisition firmware: the strain node                         *)
(* (src/arduino/strain_arduino/strain_arduino.ino) and the motion node     *)
(* (src/unnamed/part_000), each a setup() followed by a sequential loop()  *)
(* that polls the sampling timer and then the serial command line.         *)
(*                                                                         *)
(* One behaviour is the life of ONE node: Init picks the node kind, which  *)
(* never changes.  Text (command lines, frames) is a sequence of           *)
(* one-character strings.  Floating-point quantities are fixed-point       *)
(* integers: scale factors and strain readings in millionths (Micro),      *)
(* angles in ten-thousandths of a degree (DegUnit).  Times stay far below  *)
(* 2^32 in every behaviour explored, so unsigned arithmetic on millis()    *)
(* never wraps here.                                                       *)
(***************************************************************************)
EXTENDS Integers, Sequences, FiniteSets

VARIABLES
    kind,            \* "strain" | "motion": which firmware this node runs
    pc,              \* position of the node: "setup", "sample", "command", "blocked"
    currentTime,     \* loop(): the last value read from millis()
    lastSampleTime,  \* global lastSampleTime
    rx,              \* bytes waiting in the serial receive buffer
    pending,         \* host: the rest of a line it has written only the start of
    out,             \* frames (lines) written to Serial by the last node step
    scale,           \* strain: HX711 scale[8], each [OFFSET, SCALE]
    readings,        \* strain: float readings[8]
    raw,             \* strain environment: the raw count each amplifier converts
    connected,       \* environment: the amplifiers (strain) or modules (motion) that answer
    pitch, roll, yaw,\* motion: float pitch[3], roll[3], yaw[3]
    angle_offset,    \* motion: static float angle_offset of loop()
    iter,            \* number of loop() iterations started
    sent,            \* number of lines the host has written
    dispatched,      \* history: the line handed to processCommand by the last command step
    stamps,          \* history: timestamps of the last two Records, newest last
    readySet,        \* history: the channels that were ready in the last Record
    tareFresh,       \* history: a tare completed and no raw signal changed since
    recAfterTare,    \* history: the last Record was the first one after such a tare
    readFailed,      \* history: the modules whose raw read failed in the last cycle
    fused,           \* history: the raw samples the last fusion cycle worked on
    busy             \* the node has just spent a long time in setup() or in a command

vars == <<kind, pc, currentTime, lastSampleTime, rx, out, scale, readings, raw,
          connected, pitch, roll, yaw, angle_offset, iter, sent, dispatched,
          stamps, readySet, tareFresh, recAfterTare, readFailed, fused,
          busy, pending>>

-----------------------------------------------------------------------------
(* Bounds of the exploration.                                              *)

\* loop() iterations explored in one behaviour
MaxIter == 3

\* lines the host writes in one behaviour
MaxSent == 1

-----------------------------------------------------------------------------
(* Program constants.                                                      *)

\* const long SAMPLE_INTERVAL = 100 (strain node)
STRAIN_SAMPLE_INTERVAL == 100

\* const long SAMPLE_INTERVAL = 10 (motion node)
MOTION_SAMPLE_INTERVAL == 10

\* HX711 scale[8]
NumChannels == 8

\* the two real MPU6050 modules read in loop()
NumRealModules == 2

\* int is 16 bits wide on the Arduino Uno
IntBits == 16

\* the 6 of Serial.print(readings[i], 6) and Serial.println(factor, 6)
StrainDigits == 6

\* the 2 of Serial.print(pitch[i], 2)
MotionDigits == 2

\* HX711::tare() averages 10 conversions (byte times = 10)
TareTimes == 10

SAMPLE_INTERVAL == IF kind = "strain" THEN STRAIN_SAMPLE_INTERVAL ELSE MOTION_SAMPLE_INTERVAL

Channels == 1..NumChannels

IntMod == 2 ^ IntBits

\* unsigned long subtraction, as in currentTime - lastSampleTime (no wrap
\* below 2^32)
USub(a, b) == a - b

\* assignment of a long to an int: the value is reduced modulo 2^16
ToInt16(n) ==
    LET m == n % IntMod
    IN  IF m >= IntMod \div 2 THEN m - IntMod ELSE m

Abs(n) == IF n < 0 THEN -n ELSE n

RECURSIVE Pow10(_)
Pow10(k) == IF k = 0 THEN 1 ELSE 10 * Pow10(k - 1)

\* fixed-point unit of factors and readings: one millionth
Micro == Pow10(6)

\* fixed-point unit of angles: one ten-thousandth of a degree
DegUnit == Pow10(4)

-----------------------------------------------------------------------------
(* Text.                                                                   *)

Digits == <<"0", "1", "2", "3", "4", "5", "6", "7", "8", "9">>

IsDigit(ch) == \E i \in 1..10 : Digits[i] = ch

DigitVal(ch) == (CHOOSE i \in 1..10 : Digits[i] = ch) - 1

\* isspace(): the blanks that atol() and strtod() skip
IsSpace(ch) == ch \in {" ", "\t", "\r", "\n"}

\* Print::print(unsigned long): decimal digits, no padding
RECURSIVE PrintULong(_)
PrintULong(n) ==
    IF n < 10 THEN <<Digits[n + 1]>>
    ELSE PrintULong(n \div 10) \o <<Digits[(n % 10) + 1]>>

\* Print::print(int)
PrintInt(n) == IF n < 0 THEN <<"-">> \o PrintULong(-n) ELSE PrintULong(n)

\* the k decimal digits of n, zero-padded on the left
RECURSIVE PadDigits(_, _)
PadDigits(n, k) ==
    IF k = 0 THEN <<>>
    ELSE PadDigits(n \div 10, k - 1) \o <<Digits[(n % 10) + 1]>>

\* Print::printFloat(number, digits) on a fixed-point value v with `frac`
\* decimals: the sign, number + 0.5 / 10^digits cut to `digits` decimals
\* (the "ovf" answer above 4294967040.0 is out of the range explored)
PrintFloat(v, digits, frac) ==
    LET a     == Abs(v) + (5 * Pow10(frac - digits)) \div 10
        ip    == a \div Pow10(frac)
        fr    == (a % Pow10(frac)) \div Pow10(frac - digits)
    IN  (IF v < 0 THEN <<"-">> ELSE <<>>)
        \o PrintULong(ip) \o <<".">> \o PadDigits(fr, digits)

\* String::startsWith(prefix)
StartsWith(s, p) == Len(s) >= Len(p) /\ SubSeq(s, 1, Len(p)) = p

\* String::indexOf(ch, fromIndex): 0-based index of the first ch at or after
\* fromIndex, -1 when there is none or fromIndex is past the end
RECURSIVE IndexOf(_, _, _)
IndexOf(s, ch, fromIndex) ==
    IF fromIndex >= Len(s) THEN -1
    ELSE IF s[fromIndex + 1] = ch THEN fromIndex
    ELSE IndexOf(s, ch, fromIndex + 1)

\* String::substring(left, right): the characters [left, right), 0-based
Substring(s, left, right) ==
    LET lo == IF left > right THEN right ELSE left
        hi == IF left > right THEN left ELSE right
        h  == IF hi > Len(s) THEN Len(s) ELSE hi
    IN  IF lo >= Len(s) THEN <<>> ELSE SubSeq(s, lo + 1, h)

\* String::substring(beginIndex)
SubstringFrom(s, left) == Substring(s, left, Len(s))

\* s without its leading blanks
RECURSIVE SkipSpace(_)
SkipSpace(s) == IF s # <<>> /\ IsSpace(Head(s)) THEN SkipSpace(Tail(s)) ELSE s

\* the longest prefix of s made of digits
RECURSIVE DigitRun(_)
DigitRun(s) ==
    IF s # <<>> /\ IsDigit(Head(s)) THEN <<Head(s)>> \o DigitRun(Tail(s)) ELSE <<>>

\* value of a run of digits
RECURSIVE DigitsValue(_)
DigitsValue(ds) ==
    IF ds = <<>> THEN 0
    ELSE 10 * DigitsValue(SubSeq(ds, 1, Len(ds) - 1)) + DigitVal(ds[Len(ds)])

\* String::toInt() = atol(): blanks, an optional sign, digits; 0 when no digits
ToInt(s) ==
    LET t    == SkipSpace(s)
        neg  == t # <<>> /\ Head(t) = "-"
        u    == IF t # <<>> /\ Head(t) \in {"-", "+"} THEN Tail(t) ELSE t
        n    == DigitsValue(DigitRun(u))
    IN  IF neg THEN -n ELSE n

\* String::toFloat() = atof(): blanks, an optional sign, digits, an optional
\* point and digits; 0 when nothing converts.  The result is in millionths;
\* decimals past the sixth are dropped.
ToFloat(s) ==
    LET t    == SkipSpace(s)
        neg  == t # <<>> /\ Head(t) = "-"
        u    == IF t # <<>> /\ Head(t) \in {"-", "+"} THEN Tail(t) ELSE t
        ip   == DigitRun(u)
        r    == SubSeq(u, Len(ip) + 1, Len(u))
        fp   == IF r # <<>> /\ Head(r) = "." THEN DigitRun(Tail(r)) ELSE <<>>
        fp6  == SubSeq(fp \o <<"0", "0", "0", "0", "0", "0">>, 1, 6)
        m    == DigitsValue(ip) * Micro + DigitsValue(fp6)
    IN  IF ip = <<>> /\ fp = <<>> THEN 0
        ELSE IF neg THEN -m ELSE m

-----------------------------------------------------------------------------
(* Words of the protocol.                                                  *)

W_TARE == <<"T", "A", "R", "E">>

W_CALIBRATE == <<"C", "A", "L", "I", "B", "R", "A", "T", "E">>

W_IDENTITY == <<"I", "D", "E", "N", "T", "I", "T", "Y">>

W_STRAIN == <<"S", "T", "R", "A", "I", "N">>

W_MOTION == <<"M", "O", "T", "I", "O", "N">>

W_ARDUINO_READY == <<"_", "A", "R", "D", "U", "I", "N", "O", "_", "R", "E", "A", "D", "Y">>

W_COMPLETE == <<"C", "O", "M", "P", "L", "E", "T", "E">>

W_CALIBRATING_SENSORS ==
    <<"C", "A", "L", "I", "B", "R", "A", "T", "I", "N", "G", "_",
      "S", "E", "N", "S", "O", "R", "S">>

W_START == <<"S", "T", "A", "R", "T">>

W_Channel == <<"C", "h", "a", "n", "n", "e", "l">>

W_Sensor == <<"S", "e", "n", "s", "o", "r">>

W_ERROR == <<"E", "R", "R", "O", "R", ":", " ">>

W_initialized == <<" ", "i", "n", "i", "t", "i", "a", "l", "i", "z", "e", "d">>

W_not_found == <<" ", "n", "o", "t", " ", "f", "o", "u", "n", "d", "!">>

Comma == <<",">>

\* Serial.println("STRAIN_ARDUINO_READY")
STRAIN_BANNER == W_STRAIN \o W_ARDUINO_READY

\* Serial.println("MOTION_ARDUINO_READY")
MOTION_BANNER == W_MOTION \o W_ARDUINO_READY

\* Serial.println("TARE_COMPLETE")
TARE_COMPLETE == W_TARE \o <<"_">> \o W_COMPLETE

\* Serial.println("CALIBRATING_SENSORS,START")
CALIBRATING_START == W_CALIBRATING_SENSORS \o Comma \o W_START

\* Serial.println("CALIBRATING_SENSORS,COMPLETE")
CALIBRATING_COMPLETE == W_CALIBRATING_SENSORS \o Comma \o W_COMPLETE

\* "CALIBRATION_SET," <channel> "," <factor, 6 decimals>
CalibrationSetFrame(channel, factor) ==
    <<"C", "A", "L", "I", "B", "R", "A", "T", "I", "O", "N", "_", "S", "E", "T">>
    \o Comma \o PrintInt(channel) \o Comma \o PrintFloat(factor, StrainDigits, 6)

\* "<what> <n> initialized"  or  "ERROR: <what> <n> not found!"
InitLine(what, n, ok) ==
    IF ok THEN what \o <<" ">> \o PrintInt(n) \o W_initialized
    ELSE W_ERROR \o what \o <<" ">> \o PrintInt(n) \o W_not_found

\* the frames of s in index order lo..hi, one per index
RECURSIVE InitLines(_, _, _, _)
InitLines(what, lo, hi, okSet) ==
    IF lo > hi THEN <<>>
    ELSE <<InitLine(what, lo, lo \in okSet)>> \o InitLines(what, lo + 1, hi, okSet)

-----------------------------------------------------------------------------
(* Frames.                                                                 *)

\* the comma-separated fields of a line
RECURSIVE Fields(_)
Fields(s) ==
    LET i == IndexOf(s, ",", 0)
    IN  IF i < 0 THEN <<s>>
        ELSE <<Substring(s, 0, i)>> \o Fields(SubSeq(s, i + 2, Len(s)))

\* the readings vs[lo..hi], each preceded by a comma and printed with 6 decimals
RECURSIVE PrintValues(_, _, _)
PrintValues(vs, lo, hi) ==
    IF lo > hi THEN <<>>
    ELSE Comma \o PrintFloat(vs[lo], StrainDigits, 6)
         \o PrintValues(vs, lo + 1, hi)

\* "STRAIN," <currentTime> then "," <readings[i], 6 decimals> for the 8 channels
StrainRecord(t, rd) ==
    W_STRAIN \o Comma \o PrintULong(t) \o PrintValues(rd, 1, NumChannels)

IsStrainRecord(f) == StartsWith(f, W_STRAIN \o Comma)

IsMotionRecord(f) == StartsWith(f, W_MOTION \o Comma)

IsRecord(f) == IsStrainRecord(f) \/ IsMotionRecord(f)

\* the Records among the frames fs
Records(fs) == SelectSeq(fs, IsRecord)

\* marks "no line was dispatched": a dispatched line never holds its terminator
NoLine == <<"\n">>

\* marks "no Record yet" in stamps
NoStamp == 0 - 1

-----------------------------------------------------------------------------
(* The HX711 amplifier (library "HX711" by Bogdan Necula, INSTALL.md) as   *)
(* the firmware uses it.  r is the raw count the chip converts.            *)

\* HX711 object after construction: OFFSET = 0, SCALE = 1
NewHX711 == [OFFSET |-> 0, SCALE |-> Micro]

\* HX711::read_average(times): the mean of `times` conversions of r
read_average(r, times) == (times * r) \div times

\* HX711::get_value(): read_average(1) - OFFSET, as a float in millionths
get_value(h, r) == (read_average(r, 1) - h.OFFSET) * Micro

\* HX711::tare(): OFFSET = read_average(10)
tare(h, r) == [h EXCEPT !.OFFSET = read_average(r, TareTimes)]

\* HX711::set_scale(f): SCALE = f
set_scale(h, f) == [h EXCEPT !.SCALE = f]

\* HX711::is_ready() at one poll: a wired amplifier that has a conversion
\* waiting; notReady are the wired amplifiers with none at this instant
ReadyNow(conn, notReady) == conn \ notReady

-----------------------------------------------------------------------------
(* Strain node: environment.                                               *)

\* the wirings explored: all eight amplifiers, or amplifier 5 missing
ConnectedChoices == {Channels, Channels \ {5}}

\* the wired amplifiers that have no conversion waiting at a poll
NotReadyChoices == {{}, {3}}

\* the raw counts of the gauges at rest, as the node finds them at power-up:
\* a spread of negative and positive counts
RestProfile == [c \in Channels |-> 100 * c - 450]

\* the raw signals explored: the gauges at rest, and the same with more load
\* on gauge 4
RawProfiles ==
    { RestProfile,
      [c \in Channels |-> IF c = 4 THEN 350 ELSE 100 * c - 450] }

\* time between two consecutive reads of millis(), strain node
StrainDelays == {40, 100}

\* time between two consecutive reads of millis(), motion node
MotionDelays == {4, 10}

\* what holds a loop() iteration up for a second or more: the 1000 ms that
\* readStringUntil() waits for a newline, a tare of all channels, a
\* calibration
BusyDelay == 1000

\* time between two consecutive reads of millis(): the first read follows
\* setup(), the others follow the previous iteration
Delays ==
    IF busy THEN {BusyDelay}
    ELSE IF kind = "strain" THEN StrainDelays ELSE MotionDelays

-----------------------------------------------------------------------------
(* Strain node: setup().                                                   *)

\* the for loop of setup(): tare the channels that are ready
SetupScales(rdy, rw) ==
    [c \in Channels |-> IF c \in rdy THEN tare(NewHX711, rw[c]) ELSE NewHX711]

\* everything setup() prints
StrainSetupFrames(rdy) ==
    <<STRAIN_BANNER>> \o InitLines(W_Channel, 1, NumChannels, rdy)

StrainSetup ==
    /\ kind = "strain"
    /\ pc = "setup"
    /\ \E nr \in NotReadyChoices :
          LET rdy == ReadyNow(connected, nr)
          IN  /\ scale' = SetupScales(rdy, raw)
              /\ out' = StrainSetupFrames(rdy)
    /\ pc' = "sample"
    /\ busy' = TRUE
    /\ UNCHANGED <<kind, pending, fused, currentTime, lastSampleTime, rx, readings, raw, connected,
                   pitch, roll, yaw, angle_offset, iter, sent, dispatched, stamps,
                   readySet, tareFresh, recAfterTare, readFailed>>

-----------------------------------------------------------------------------
(* Both nodes: the sampling check of loop().                               *)

\* millis() read d milliseconds after the previous read
Millis(d) == currentTime + d

\* a sampling check that lets exactly one interval go by without firing
SampleDue_Strict(now, last) == USub(now, last) > SAMPLE_INTERVAL

\* a sampling check that lets two intervals go by
SampleDue_Twice(now, last) == USub(now, last) >= 2 * SAMPLE_INTERVAL

\* if (currentTime - lastSampleTime >= SAMPLE_INTERVAL)
SampleDue(now, last) == USub(now, last) >= SAMPLE_INTERVAL

\* the sampling check found nothing to do
SampleSkip ==
    /\ pc = "sample"
    /\ iter < MaxIter
    /\ \E d \in Delays :
          /\ ~SampleDue(Millis(d), lastSampleTime)
          /\ currentTime' = Millis(d)
    /\ out' = <<>>
    /\ pc' = "command"
    /\ iter' = iter + 1
    /\ dispatched' = NoLine
    /\ busy' = FALSE
    /\ UNCHANGED <<kind, pending, fused, lastSampleTime, rx, scale, readings, raw, connected,
                   pitch, roll, yaw, angle_offset, sent, stamps, readySet,
                   tareFresh, recAfterTare, readFailed>>

-----------------------------------------------------------------------------
(* Strain node: the sampling branch of loop().                             *)

\* a read loop that leaves readings[i] alone when the channel is not ready
ReadChannels_KeepStale(rdy, sc, rw) ==
    [c \in Channels |-> IF c \in rdy THEN get_value(sc[c], rw[c]) ELSE readings[c]]

\* the "Read all channels" loop
ReadChannels(rdy, sc, rw) ==
    [c \in Channels |-> IF c \in rdy THEN get_value(sc[c], rw[c]) ELSE 0]

StrainSample ==
    /\ kind = "strain"
    /\ pc = "sample"
    /\ iter < MaxIter
    /\ \E d \in Delays, nr \in NotReadyChoices :
          LET now == Millis(d)
              rdy == ReadyNow(connected, nr)
              rd  == ReadChannels(rdy, scale, raw)
          IN  /\ SampleDue(now, lastSampleTime)
              /\ currentTime' = now
              /\ lastSampleTime' = now
              /\ readings' = rd
              /\ out' = <<StrainRecord(now, rd)>>
              /\ stamps' = <<stamps[2], now>>
              /\ readySet' = rdy
    /\ recAfterTare' = tareFresh
    /\ tareFresh' = FALSE
    /\ pc' = "command"
    /\ iter' = iter + 1
    /\ dispatched' = NoLine
    /\ busy' = FALSE
    /\ UNCHANGED <<kind, pending, fused, rx, scale, raw, connected, pitch, roll, yaw, angle_offset,
                   sent, readFailed>>

-----------------------------------------------------------------------------
(* Both nodes: the command check of loop().                                *)

\* a read that empties the receive buffer and keeps the first line only
ReadStringUntil_Drain(buf) ==
    LET i == IndexOf(buf, "\n", 0)
    IN  IF i < 0 THEN [command |-> buf, rest |-> <<>>, timedOut |-> TRUE]
        ELSE [command |-> Substring(buf, 0, i), rest |-> <<>>, timedOut |-> FALSE]

\* Serial.readStringUntil('\n'): the bytes before the first newline, which is
\* consumed; with no newline in the buffer the read times out and returns
\* every byte received
ReadStringUntil(buf) ==
    LET i == IndexOf(buf, "\n", 0)
    IN  IF i < 0 THEN [command |-> buf, rest |-> <<>>, timedOut |-> TRUE]
        ELSE [command |-> Substring(buf, 0, i), rest |-> SubSeq(buf, i + 2, Len(buf)),
              timedOut |-> FALSE]

\* if (Serial.available() > 0) is false
CommandNone ==
    /\ pc = "command"
    /\ rx = <<>>
    /\ out' = <<>>
    /\ pc' = "sample"
    /\ dispatched' = NoLine
    /\ UNCHANGED <<kind, pending, busy, fused, currentTime, lastSampleTime, rx, scale, readings, raw,
                   connected, pitch, roll, yaw, angle_offset, iter, sent, stamps,
                   readySet, tareFresh, recAfterTare, readFailed>>

-----------------------------------------------------------------------------
(* Strain node: processCommand().                                          *)

\* the first channel, in index order, whose amplifier never becomes ready;
\* NumChannels + 1 when every amplifier is wired
FirstAbsent(conn) ==
    IF Channels \ conn = {} THEN NumChannels + 1
    ELSE CHOOSE c \in Channels \ conn : \A e \in Channels \ conn : c <= e

\* the "Tare all scales" loop: HX711::tare() waits in wait_ready() until the
\* amplifier has a conversion, so the loop stops for good at the first
\* amplifier that never has one
TareAll(sc, rw, conn) ==
    [c \in Channels |-> IF c < FirstAbsent(conn) THEN tare(sc[c], rw[c]) ELSE sc[c]]

\* if (channel >= 1 && channel <= 8)
ChannelInRange(channel) == channel >= 1 /\ channel <= NumChannels

\* int channel = command.substring(10, commaIndex).toInt()
ChannelOf(command, commaIndex) == ToInt16(ToInt(Substring(command, 10, commaIndex)))

\* float factor = command.substring(commaIndex + 1).toFloat()
FactorOf(command, commaIndex) == ToFloat(SubstringFrom(command, commaIndex + 1))

\* a CALIBRATE branch that indexes scale[] with the 1-based channel number
CalibrateBranch_NoIndexShift(command, sc) ==
    LET commaIndex == IndexOf(command, ",", 10)
        channel    == ChannelOf(command, commaIndex)
        factor     == FactorOf(command, commaIndex)
        slot       == (channel % NumChannels) + 1
    IN  IF commaIndex > 0 /\ ChannelInRange(channel)
        THEN [scale |-> [sc EXCEPT ![slot] = set_scale(sc[slot], factor)],
              out |-> <<CalibrationSetFrame(channel, factor)>>,
              blocked |-> FALSE, tared |-> FALSE]
        ELSE [scale |-> sc, out |-> <<>>, blocked |-> FALSE, tared |-> FALSE]

\* the CALIBRATE branch: the new scale[] and the frames printed
CalibrateBranch(command, sc) ==
    LET commaIndex == IndexOf(command, ",", 10)
        channel    == ChannelOf(command, commaIndex)
        factor     == FactorOf(command, commaIndex)
    IN  IF commaIndex > 0 /\ ChannelInRange(channel)
        THEN [scale |-> [sc EXCEPT ![channel] = set_scale(sc[channel], factor)],
              out |-> <<CalibrationSetFrame(channel, factor)>>,
              blocked |-> FALSE, tared |-> FALSE]
        ELSE [scale |-> sc, out |-> <<>>, blocked |-> FALSE, tared |-> FALSE]

\* command.startsWith("TARE")
IsTareCommand(command) == StartsWith(command, W_TARE)

\* command.startsWith("CALIBRATE")
IsCalibrateCommand(command) == StartsWith(command, W_CALIBRATE)

\* command == "IDENTITY"
IsIdentityCommand(command) == command = W_IDENTITY

\* processCommand(command) of the strain node: the new scale[], the frames
\* printed, whether the call never returns, whether every channel was tared
StrainProcessCommand(command, sc, rw, conn) ==
    IF IsTareCommand(command)
    THEN LET stuck == FirstAbsent(conn) <= NumChannels
         IN  [scale |-> TareAll(sc, rw, conn),
              out |-> IF stuck THEN <<>> ELSE <<TARE_COMPLETE>>,
              blocked |-> stuck, tared |-> ~stuck]
    ELSE IF IsCalibrateCommand(command)
    THEN CalibrateBranch(command, sc)
    ELSE IF IsIdentityCommand(command)
    THEN [scale |-> sc, out |-> <<STRAIN_BANNER>>, blocked |-> FALSE, tared |-> FALSE]
    ELSE [scale |-> sc, out |-> <<>>, blocked |-> FALSE, tared |-> FALSE]

\* if (Serial.available() > 0) { command = readStringUntil('\n'); processCommand(command); }
StrainCommand ==
    /\ kind = "strain"
    /\ pc = "command"
    /\ rx # <<>>
    /\ LET got == ReadStringUntil(rx)
           eff == StrainProcessCommand(got.command, scale, raw, connected)
       IN  /\ rx' = got.rest
           /\ dispatched' = got.command
           /\ scale' = eff.scale
           /\ out' = eff.out
           /\ pc' = IF eff.blocked THEN "blocked" ELSE "sample"
           /\ tareFresh' = (eff.tared \/ tareFresh)
           /\ busy' = (got.timedOut \/ IsTareCommand(got.command))
    /\ UNCHANGED <<kind, pending, fused, currentTime, lastSampleTime, readings, raw, connected,
                   pitch, roll, yaw, angle_offset, iter, sent, stamps, readySet,
                   recAfterTare, readFailed>>

-----------------------------------------------------------------------------
(* Strain node: the host and the gauges.                                   *)

L_CAL(c, f) == W_CALIBRATE \o Comma \o c \o Comma \o f

\* the lines the host writes to the strain node in one go; the last entry is
\* two lines written back to back
StrainLines ==
    { W_TARE,
      W_TARE \o <<"X">>,
      <<" ">> \o W_TARE,
      L_CAL(<<"3">>, <<"2", ".", "5", "0", "0", "0", "0", "0">>),
      L_CAL(<<"8">>, <<"0", ".", "5">>),
      L_CAL(<<"9">>, <<"1", ".", "0">>),
      L_CAL(<<"0">>, <<"1", ".", "0">>),
      L_CAL(<<"6", "5", "5", "3", "7">>, <<"2", ".", "5">>),
      L_CAL(<<"3">>, <<"a", "b", "c">>),
      L_CAL(<<"3">>, <<>>),
      L_CAL(<<"x">>, <<"2", ".", "5">>),
      L_CAL(<<"3">>, <<"-", "1", ".", "5">>),
      W_CALIBRATE \o Comma \o <<"3">>,
      W_CALIBRATE \o <<"X", "3">> \o Comma \o <<"2", ".", "5">>,
      W_IDENTITY,
      W_IDENTITY \o <<"\r">>,
      <<"H", "E", "L", "L", "O">>,
      <<>>,
      W_IDENTITY \o <<"\n">> \o W_TARE }

\* the lines the host writes to the motion node
MotionLines ==
    { W_CALIBRATE,
      W_CALIBRATE \o <<"X">>,
      W_CALIBRATE \o <<"\r">>,
      W_IDENTITY,
      <<" ">> \o W_IDENTITY,
      W_TARE,
      <<>>,
      W_IDENTITY \o <<"\n">> \o W_CALIBRATE }

Lines == IF kind = "strain" THEN StrainLines ELSE MotionLines

\* the host writes one line and its newline, once the node has read the
\* line before.  Bytes that arrive while the node samples are seen by the
\* same command check as bytes that arrive just before it, so arrivals are
\* explored at the command check only.
HostSend ==
    /\ pc = "command"
    /\ rx = <<>>
    /\ pending = <<>>
    /\ sent < MaxSent
    /\ \E line \in Lines : rx' = rx \o line \o <<"\n">>
    /\ sent' = sent + 1
    /\ UNCHANGED <<kind, pending, busy, fused, pc, currentTime, lastSampleTime, out, scale, readings, raw,
                   connected, pitch, roll, yaw, angle_offset, iter, dispatched,
                   stamps, readySet, tareFresh, recAfterTare, readFailed>>

\* lines the host writes in two pieces: <<first bytes, rest>>
SplitLines ==
    IF kind = "strain"
    THEN { <<SubSeq(W_TARE, 1, 2), SubSeq(W_TARE, 3, 4)>>, <<W_IDENTITY, <<>>>> }
    ELSE { <<SubSeq(W_CALIBRATE, 1, 3), SubSeq(W_CALIBRATE, 4, 9)>>, <<W_IDENTITY, <<>>>> }

\* the host writes the first bytes of a line and holds the rest back
HostSendPiece ==
    /\ pc = "command"
    /\ rx = <<>>
    /\ pending = <<>>
    /\ sent < MaxSent
    /\ \E split \in SplitLines :
          /\ rx' = split[1]
          /\ pending' = split[2] \o <<"\n">>
    /\ sent' = sent + 1
    /\ UNCHANGED <<kind, busy, fused, pc, currentTime, lastSampleTime, out, scale, readings,
                   raw, connected, pitch, roll, yaw, angle_offset, iter, dispatched,
                   stamps, readySet, tareFresh, recAfterTare, readFailed>>

\* the host writes the rest of the line and its newline, before or after the
\* node has looked at its receive buffer
HostSendRest ==
    /\ pc = "command"
    /\ pending # <<>>
    /\ rx' = rx \o pending
    /\ pending' = <<>>
    /\ UNCHANGED <<kind, busy, fused, pc, currentTime, lastSampleTime, out, scale, readings,
                   raw, connected, pitch, roll, yaw, angle_offset, iter, sent, dispatched,
                   stamps, readySet, tareFresh, recAfterTare, readFailed>>

\* the load on the gauges changes
SignalChange ==
    /\ kind = "strain"
    /\ pc # "setup"
    /\ \E p \in RawProfiles : p # raw /\ raw' = p
    /\ tareFresh' = FALSE
    /\ UNCHANGED <<kind, pending, busy, fused, pc, currentTime, lastSampleTime, rx, out, scale, readings,
                   connected, pitch, roll, yaw, angle_offset, iter, sent, dispatched,
                   stamps, readySet, recAfterTare, readFailed>>

-----------------------------------------------------------------------------
(* Motion node: arithmetic of the complementary filter.                    *)

\* float alpha = 0.98, in hundredths
AlphaPct == 98

\* the 131.0 of gx / 131.0: raw gyro counts per degree/second
GyroSensitivity == 131

\* the divisor of float dt = SAMPLE_INTERVAL / 1000.0
MillisPerSecond == 1000

\* the 30.0 of if (angle_offset > 30.0)
OffsetCeiling == 30 * DegUnit

\* the 0.01 of angle_offset += 0.01
OffsetStep == DegUnit \div 100

Modules == 1..NumRealModules

\* a / b rounded to the nearest integer, as floating point rounds
RoundDiv(a, b) ==
    IF a >= 0 THEN (2 * a + b) \div (2 * b) ELSE -((2 * (-a) + b) \div (2 * b))

\* sqrt() of a non-negative integer, rounded down
ISqrt(n) == CHOOSE r \in 0..(n + 1) : r * r <= n /\ (r + 1) * (r + 1) > n

\* atan2(y, x) * 180.0 / PI in units of DegUnit, on the directions that
\* are whole multiples of 45 degrees (the raw samples explored use no other)
Atan2Deg(y, x) ==
    LET d == IF y = 0 /\ x >= 0 THEN 0
             ELSE IF y = 0 THEN 180
             ELSE IF x = 0 THEN (IF y > 0 THEN 90 ELSE -90)
             ELSE IF x > 0 THEN (IF y > 0 THEN 45 ELSE -45)
             ELSE (IF y > 0 THEN 135 ELSE -135)
    IN  d * DegUnit

\* float accelPitch = atan2(ay, sqrt(ax * ax + az * az)) * 180.0 / PI
AccelPitch(s) == Atan2Deg(s.ay, ISqrt(s.ax * s.ax + s.az * s.az))

\* float accelRoll = atan2(-ax, az) * 180.0 / PI
AccelRoll(s) == Atan2Deg(-s.ax, s.az)

\* a gyro step that integrates over the time that went by since the last tick
GyroStep_Elapsed(g) ==
    RoundDiv(g * (((currentTime' - lastSampleTime) * DegUnit) \div MillisPerSecond),
             GyroSensitivity)

\* gyro * dt with gyro = g / 131.0 and dt = SAMPLE_INTERVAL / 1000.0
GyroStep(g) ==
    RoundDiv(g * ((MOTION_SAMPLE_INTERVAL * DegUnit) \div MillisPerSecond), GyroSensitivity)

\* alpha * gyroAngle + (1 - alpha) * accelAngle
Blend(gyroAngle, accelAngle) ==
    RoundDiv(AlphaPct * gyroAngle + (100 - AlphaPct) * accelAngle, 100)

\* pitch[i] after one cycle on raw sample s
FusePitch(p, s) == Blend(p + GyroStep(s.gy), AccelPitch(s))

\* roll[i] after one cycle on raw sample s
FuseRoll(r, s) == Blend(r + GyroStep(s.gx), AccelRoll(s))

\* a yaw that is run through the complementary filter like pitch and roll
FuseYaw_Filtered(y, s) == Blend(y + GyroStep(s.gz), 0)

\* yaw[i] after one cycle on raw sample s
FuseYaw(y, s) == y + GyroStep(s.gz)

\* an offset that is reset as soon as it reaches the ceiling
NextOffset_AtCeiling(o) == IF o + OffsetStep >= OffsetCeiling THEN 0 ELSE o + OffsetStep

\* angle_offset += 0.01; if (angle_offset > 30.0) angle_offset = 0.0
NextOffset(o) == IF o + OffsetStep > OffsetCeiling THEN 0 ELSE o + OffsetStep

\* ",pitch,roll,yaw" of modules lo..hi, 2 decimals each
RECURSIVE PrintAngles(_, _, _, _, _)
PrintAngles(p, r, y, lo, hi) ==
    IF lo > hi THEN <<>>
    ELSE Comma \o PrintFloat(p[lo], MotionDigits, 4)
         \o Comma \o PrintFloat(r[lo], MotionDigits, 4)
         \o Comma \o PrintFloat(y[lo], MotionDigits, 4)
         \o PrintAngles(p, r, y, lo + 1, hi)

\* "MOTION," <currentTime> then pitch, roll, yaw of the three modules
MotionRecord(t, p, r, y) ==
    W_MOTION \o Comma \o PrintULong(t) \o PrintAngles(p, r, y, 1, NumRealModules + 1)

-----------------------------------------------------------------------------
(* Motion node: environment.                                               *)

Sample6(ax, ay, az, gx, gy, gz) ==
    [ax |-> ax, ay |-> ay, az |-> az, gx |-> gx, gy |-> gy, gz |-> gz]

\* what getMotion6() delivers: at rest and level; pitched up 45 degrees while
\* turning about Z at 100 degrees/second; rolled 45 degrees while turning about
\* all three axes.  Accelerations are kept so small
\* that ax * ax + az * az fits an int.
AtRest == Sample6(0, 0, 100, 0, 0, 0)
Pitched == Sample6(0, 100, 100, 0, 0, 13100)
Rolled == Sample6(100, 0, 100, 131, 0 - 131, 13100)

Samples == {AtRest, Pitched, Rolled}

\* the samples of module 1 and module 2 in one cycle
CycleSamples == { <<AtRest, AtRest>>, <<Rolled, Pitched>>, <<Pitched, AtRest>> }

\* the modules whose bus transaction fails in one cycle
FailChoices == {{}, {2}}

\* the modules that answer on the bus: both, or module 2 missing
FoundChoices == {Modules, {1}}

-----------------------------------------------------------------------------
(* Motion node: setup(), calibrateSensors(), loop(), processCommand().      *)

\* CalibrateGyro(6), CalibrateAccel(6): the number of PID loops
CalibrateLoops == 6

\* what one CalibrateGyro()/CalibrateAccel() call writes to Serial: the
\* library's PID() writes '>' when it starts and '.' after each loop
PidMarks == <<">">> \o [l \in 1..CalibrateLoops |-> "."]

\* the bytes the for loop of calibrateSensors() leaves on the open line
RECURSIVE CalibrateMarks(_)
CalibrateMarks(i) ==
    IF i > NumRealModules THEN <<>>
    ELSE PidMarks \o PidMarks \o CalibrateMarks(i + 1)

\* whether calibrateSensors() can fail to return: PID() repeats a loop for as
\* long as the error it reads stays large, and the reads of a module that
\* does not answer deliver nothing it can drive to zero
StuckChoices(conn) == IF Modules \subseteq conn THEN {FALSE} ELSE {FALSE, TRUE}

\* everything calibrateSensors() prints, as lines; stuck: it never returns
CalibrateFrames(stuck) ==
    IF stuck THEN <<CALIBRATING_START>>
    ELSE <<CALIBRATING_START, CalibrateMarks(1) \o CALIBRATING_COMPLETE>>

\* everything setup() prints
MotionSetupFrames(found, stuck) ==
    <<MOTION_BANNER>> \o InitLines(W_Sensor, 1, NumRealModules, found)
    \o CalibrateFrames(stuck)

MotionSetup ==
    /\ kind = "motion"
    /\ pc = "setup"
    /\ \E stuck \in StuckChoices(connected) :
          /\ out' = MotionSetupFrames(connected, stuck)
          /\ pc' = IF stuck THEN "blocked" ELSE "sample"
    /\ busy' = TRUE
    /\ UNCHANGED <<kind, pending, fused, currentTime, lastSampleTime, rx, scale, readings, raw,
                   connected, pitch, roll, yaw, angle_offset, iter, sent, dispatched,
                   stamps, readySet, tareFresh, recAfterTare, readFailed>>

\* pitch[] after the fusion loop and the simulated third sensor
NewPitch(p, s, o) ==
    LET q == [i \in Modules |-> FusePitch(p[i], s[i])]
    IN  [i \in 1..(NumRealModules + 1) |->
            IF i \in Modules THEN q[i] ELSE q[NumRealModules] + o]

\* roll[] after the fusion loop and the simulated third sensor
NewRoll(r, s) ==
    LET q == [i \in Modules |-> FuseRoll(r[i], s[i])]
    IN  [i \in 1..(NumRealModules + 1) |->
            IF i \in Modules THEN q[i] ELSE q[NumRealModules]]

\* yaw[] after the fusion loop and the simulated third sensor
NewYaw(y, s) ==
    LET q == [i \in Modules |-> FuseYaw(y[i], s[i])]
    IN  [i \in 1..(NumRealModules + 1) |->
            IF i \in Modules THEN q[i] ELSE q[NumRealModules]]

\* the sampling branch of loop(): getMotion6() returns no status, so a cycle
\* whose bus transaction failed fuses whatever its buffer holds
MotionSample ==
    /\ kind = "motion"
    /\ pc = "sample"
    /\ iter < MaxIter
    /\ \E d \in Delays, s \in CycleSamples, failed \in FailChoices :
          LET now == Millis(d)
              o   == NextOffset(angle_offset)
              p   == NewPitch(pitch, s, o)
              r   == NewRoll(roll, s)
              y   == NewYaw(yaw, s)
          IN  /\ SampleDue(now, lastSampleTime)
              /\ currentTime' = now
              /\ lastSampleTime' = now
              /\ angle_offset' = o
              /\ pitch' = p
              /\ roll' = r
              /\ yaw' = y
              /\ out' = <<MotionRecord(now, p, r, y)>>
              /\ stamps' = <<stamps[2], now>>
              /\ readFailed' = failed
              /\ fused' = s
    /\ pc' = "command"
    /\ iter' = iter + 1
    /\ dispatched' = NoLine
    /\ busy' = FALSE
    /\ UNCHANGED <<kind, pending, rx, scale, readings, raw, connected, sent, readySet,
                   tareFresh, recAfterTare>>

\* a processCommand that answers IDENTITY with the strain node's banner
MotionProcessCommand_StrainBanner(command, stuck) ==
    IF command = W_CALIBRATE
    THEN [out |-> CalibrateFrames(stuck), blocked |-> stuck]
    ELSE IF IsIdentityCommand(command)
    THEN [out |-> <<STRAIN_BANNER>>, blocked |-> FALSE]
    ELSE [out |-> <<>>, blocked |-> FALSE]

\* processCommand(command) of the motion node: the frames printed and
\* whether the call never returns
MotionProcessCommand(command, stuck) ==
    IF command = W_CALIBRATE
    THEN [out |-> CalibrateFrames(stuck), blocked |-> stuck]
    ELSE IF IsIdentityCommand(command)
    THEN [out |-> <<MOTION_BANNER>>, blocked |-> FALSE]
    ELSE [out |-> <<>>, blocked |-> FALSE]

MotionCommand ==
    /\ kind = "motion"
    /\ pc = "command"
    /\ rx # <<>>
    /\ LET got == ReadStringUntil(rx)
       IN  /\ rx' = got.rest
           /\ dispatched' = got.command
           /\ \E stuck \in StuckChoices(connected) :
                 LET eff == MotionProcessCommand(got.command, stuck)
                 IN  /\ out' = eff.out
                     /\ pc' = IF eff.blocked THEN "blocked" ELSE "sample"
           /\ busy' = (got.timedOut \/ got.command = W_CALIBRATE)
    /\ UNCHANGED <<kind, pending, fused, currentTime, lastSampleTime, scale, readings, raw, connected,
                   pitch, roll, yaw, angle_offset, iter, sent, stamps, readySet,
                   tareFresh, recAfterTare, readFailed>>

-----------------------------------------------------------------------------
(* The node.                                                               *)

Init ==
    /\ kind \in {"strain", "motion"}
    /\ pc = "setup"
    /\ currentTime = 0
    /\ lastSampleTime = 0
    /\ rx = <<>>
    /\ out = <<>>
    /\ scale = [c \in Channels |-> NewHX711]
    /\ readings = [c \in Channels |-> 0]
    /\ raw \in (IF kind = "strain" THEN {RestProfile} ELSE {[c \in Channels |-> 0]})
    /\ connected \in (IF kind = "strain" THEN ConnectedChoices ELSE FoundChoices)
    /\ pitch = [i \in 1..(NumRealModules + 1) |-> 0]
    /\ roll = [i \in 1..(NumRealModules + 1) |-> 0]
    /\ yaw = [i \in 1..(NumRealModules + 1) |-> 0]
    /\ angle_offset = 0
    /\ iter = 0
    /\ sent = 0
    /\ dispatched = NoLine
    /\ stamps = <<NoStamp, NoStamp>>
    /\ readySet = {}
    /\ tareFresh = FALSE
    /\ recAfterTare = FALSE
    /\ readFailed = {}
    /\ fused = <<AtRest, AtRest>>
    /\ busy = FALSE
    /\ pending = <<>>

Next ==
    \/ StrainSetup
    \/ MotionSetup
    \/ SampleSkip
    \/ StrainSample
    \/ MotionSample
    \/ CommandNone
    \/ StrainCommand
    \/ MotionCommand
    \/ HostSend
    \/ HostSendPiece
    \/ HostSendRest
    \/ SignalChange

Spec == Init /\ [][Next]_vars

-----------------------------------------------------------------------------
(* The motion node late in a run, shortly before angle_offset reaches its  *)
(* ceiling.                                                                *)

\* Records already emitted when the exploration starts
TicksBefore == {2998, 2999}

\* the motion node after n Records, with both modules at rest and level since
\* power-up, a first check one BusyDelay after boot, a check every
\* SAMPLE_INTERVAL since, and no line from the host yet
InitNearCeiling ==
    /\ kind = "motion"
    /\ pc = "sample"
    /\ \E n \in TicksBefore :
          /\ currentTime = BusyDelay + (n - 1) * MOTION_SAMPLE_INTERVAL
          /\ lastSampleTime = currentTime
          /\ stamps = <<currentTime - MOTION_SAMPLE_INTERVAL, currentTime>>
          /\ angle_offset = n * OffsetStep
    /\ pitch = <<0, 0, angle_offset>>
    /\ roll = <<0, 0, 0>>
    /\ yaw = <<0, 0, 0>>
    /\ rx = <<>>
    /\ out = <<>>
    /\ scale = [c \in Channels |-> NewHX711]
    /\ readings = [c \in Channels |-> 0]
    /\ raw = [c \in Channels |-> 0]
    /\ connected = Modules
    /\ iter = 0
    /\ sent = 0
    /\ dispatched = NoLine
    /\ readySet = {}
    /\ tareFresh = FALSE
    /\ recAfterTare = FALSE
    /\ readFailed = {}
    /\ fused = <<AtRest, AtRest>>
    /\ busy = FALSE
    /\ pending = <<>>

NextMotion ==
    \/ SampleSkip
    \/ MotionSample
    \/ CommandNone
    \/ MotionCommand
    \/ HostSend

SpecCeiling == InitNearCeiling /\ [][NextMotion]_vars

-----------------------------------------------------------------------------
(* Properties.                                                             *)

\* the step is the sampling check of one loop() iteration
IsSampleStep == pc = "sample" /\ pc' = "command"

\* the step is the command check of one loop() iteration
IsCommandStep == pc = "command" /\ pc' # "command"

\* C1: on each node the sampling action fires in a loop iteration if and only
\* if now - lastSampleTime >= sampleInterval (100 ms strain, 10 ms motion);
\* when it fires it sets lastSampleTime = now and emits exactly one Record
\* stamped with now, otherwise it emits nothing and keeps lastSampleTime; the
\* timestamps of two consecutive Records differ by at least sampleInterval.
C1_SamplingInterval ==
    [][IsSampleStep =>
        LET interval == IF kind = "strain" THEN 100 ELSE 10
            due      == currentTime' - lastSampleTime >= interval
        IN  /\ due <=> Records(out') # <<>>
            /\ due => /\ lastSampleTime' = currentTime'
                      /\ Len(out') = 1
                      /\ Fields(out'[1])[2] = PrintULong(currentTime')
                      /\ stamps'[2] = currentTime'
            /\ ~due => /\ out' = <<>>
                       /\ lastSampleTime' = lastSampleTime
            /\ stamps'[1] # NoStamp => stamps'[2] - stamps'[1] >= interval]_vars

\* C1 witness: a second Record has just been emitted, later than one interval
\* after the first because a check in between came too early
C1_Witness ==
    /\ pc = "command"
    /\ Records(out) # <<>>
    /\ stamps[1] # NoStamp
    /\ stamps[2] - stamps[1] > SAMPLE_INTERVAL
    /\ lastSampleTime = stamps[2]

-----------------------------------------------------------------------------

\* the eight value fields of a STRAIN Record
ValueFields(f) == SubSeq(Fields(f), 3, Len(Fields(f)))

ZeroField == <<"0", ".", "0", "0", "0", "0", "0", "0">>

\* C2: on the strain node a TARE line is answered with exactly one
\* TARE_COMPLETE frame, and the first Record emitted afterwards carries 0 for
\* every one of the eight channels, provided no channel's raw signal changes
\* between the tare and the read.
C2_TareThenZero ==
    kind = "strain" =>
        /\ dispatched = W_TARE => out = <<TARE_COMPLETE>>
        /\ (pc = "command" /\ recAfterTare /\ Records(out) # <<>>) =>
               /\ Len(ValueFields(out[1])) = 8
               /\ \A c \in Channels : ValueFields(out[1])[c] = ZeroField

\* (raw - OFFSET) / SCALE in millionths, for a SCALE that is a whole number
\* of thousandths
UnitsOf(h, r) == RoundDiv((r - h.OFFSET) * Micro, h.SCALE \div 1000) * 1000

\* C3: for every channel c and factor f > 0, after CALIBRATE,c,f the value
\* reported for channel c in later Records is (rawCount - zeroOffset) / f;
\* the reading of a ready channel always equals
\* (rawCount - zeroOffset) / scale.
C3_ReadingIsScaled ==
    [][(IsSampleStep /\ kind = "strain" /\ Records(out') # <<>>) =>
        \A c \in readySet' :
            scale[c].SCALE > 0 =>
                /\ readings'[c] = UnitsOf(scale[c], raw[c])
                /\ ValueFields(out'[1])[c] =
                       PrintFloat(UnitsOf(scale[c], raw[c]), 6, 6)]_vars

\* CALIBRATE lines with a channel in 1..8 and a well-formed factor: the
\* channel and factor as written, the channel number, the factor in
\* millionths, and the factor at 6 decimals
CalTable ==
    { [c |-> <<"3">>, f |-> <<"2", ".", "5", "0", "0", "0", "0", "0">>,
       n |-> 3, v |-> 2500000,
       shown |-> <<"2", ".", "5", "0", "0", "0", "0", "0">>],
      [c |-> <<"8">>, f |-> <<"0", ".", "5">>,
       n |-> 8, v |-> 500000,
       shown |-> <<"0", ".", "5", "0", "0", "0", "0", "0">>],
      [c |-> <<"3">>, f |-> <<"-", "1", ".", "5">>,
       n |-> 3, v |-> -1500000,
       shown |-> <<"-", "1", ".", "5", "0", "0", "0", "0", "0">>] }

CALIBRATION_SET ==
    <<"C", "A", "L", "I", "B", "R", "A", "T", "I", "O", "N", "_", "S", "E", "T">>

\* C4: on the strain node a line CALIBRATE,<c>,<f> with 1 <= c <= 8 and a
\* well-formed factor f sets the scale of channel c to f, leaves the scale of
\* every other channel and every zero offset unchanged, and emits exactly one
\* frame CALIBRATION_SET,<c>,<f> with f at 6 decimals.
C4_CalibrateSetsScale ==
    [][(IsCommandStep /\ kind = "strain") =>
        \A e \in CalTable :
            dispatched' = L_CAL(e.c, e.f) =>
                /\ scale' = [scale EXCEPT ![e.n] =
                                [OFFSET |-> scale[e.n].OFFSET, SCALE |-> e.v]]
                /\ out' = <<CALIBRATION_SET \o Comma \o e.c \o Comma \o e.shown>>]_vars

\* C4 witness: CALIBRATE,3,2.500000 was dispatched to a node whose channel 3
\* had been tared to a non-zero offset, and CALIBRATION_SET,3,2.500000 came back
C4_Witness ==
    /\ kind = "strain"
    /\ dispatched = L_CAL(<<"3">>, <<"2", ".", "5", "0", "0", "0", "0", "0">>)
    /\ scale[3].SCALE = 2500000
    /\ scale[3].OFFSET # 0
    /\ \A c \in Channels \ {3} : scale[c].SCALE = 1000000
    /\ Len(out) = 1
    /\ Fields(out[1]) = <<CALIBRATION_SET, <<"3">>,
                          <<"2", ".", "5", "0", "0", "0", "0", "0">>>>

\* channel indices, as written, that lie outside 1..8
OutOfRangeChannels == { <<"9">>, <<"0">>, <<"6", "5", "5", "3", "7">> }

\* C5: on the 8-channel strain node a CALIBRATE line whose channel index is
\* outside [1, 8] produces no output frame and leaves the scale of all eight
\* channels unchanged.
C5_OutOfRangeChannelIgnored ==
    [][(IsCommandStep /\ kind = "strain") =>
        \A c \in OutOfRangeChannels, f \in {<<"1", ".", "0">>, <<"2", ".", "5">>} :
            dispatched' = L_CAL(c, f) => (out' = <<>> /\ scale' = scale)]_vars

\* CALIBRATE lines whose arguments cannot be parsed: a non-numeric factor, an
\* empty factor, a non-numeric channel, a missing field
UnparsableCalibrates ==
    { L_CAL(<<"3">>, <<"a", "b", "c">>),
      L_CAL(<<"3">>, <<>>),
      L_CAL(<<"x">>, <<"2", ".", "5">>),
      W_CALIBRATE \o Comma \o <<"3">> }

\* C6: on the strain node a CALIBRATE line whose arguments cannot be parsed
\* is silently dropped: no frame is emitted and no channel scale or offset
\* changes.
C6_UnparsableCalibrateDropped ==
    [][(IsCommandStep /\ kind = "strain" /\ dispatched' \in UnparsableCalibrates) =>
        (out' = <<>> /\ scale' = scale)]_vars

\* lines that are none of the node's commands
NonCommands ==
    IF kind = "strain"
    THEN { W_TARE \o <<"X">>,
           W_CALIBRATE \o <<"X", "3">> \o Comma \o <<"2", ".", "5">>,
           <<"H", "E", "L", "L", "O">> }
    ELSE { W_CALIBRATE \o <<"X">>, W_TARE }

\* C7: on either node an inbound line that is not one of the node's commands,
\* including a line that merely begins with a command word such as TAREX or
\* CALIBRATEX3,2.5, causes no frame to be emitted and no change to any
\* channel, estimator or scheduler state.
C7_UnknownLineIgnored ==
    [][(IsCommandStep /\ dispatched' \in NonCommands) =>
        /\ out' = <<>>
        /\ pc' = "sample"
        /\ UNCHANGED <<scale, readings, pitch, roll, yaw, angle_offset,
                       lastSampleTime, currentTime>>]_vars

\* C8: in every reachable state of the strain node the scale factor of every
\* channel is strictly positive.
C8_ScalePositive == \A c \in Channels : scale[c].SCALE > 0

\* C9: on every strain tick a Record with exactly eight values is emitted
\* whatever the readiness of the channels: a channel that is not ready
\* contributes the sentinel 0, and the value of a ready channel is its own
\* raw count minus its own offset, whatever the other channels do.
C9_NotReadyGivesZero ==
    [][(IsSampleStep /\ kind = "strain" /\ currentTime' - lastSampleTime >= 100) =>
        /\ Len(out') = 1
        /\ IsStrainRecord(out'[1])
        /\ ValueFields(out'[1]) =
               [c \in 1..8 |->
                   IF c \in readySet'
                   THEN PrintFloat((raw[c] - scale[c].OFFSET) * 1000000, 6, 6)
                   ELSE ZeroField]
        /\ \A c \in Channels :
               readings'[c] = IF c \in readySet'
                              THEN (raw[c] - scale[c].OFFSET) * 1000000
                              ELSE 0]_vars

\* C9 witness: a Record was emitted while wired channel 3, whose raw count is
\* off its offset, was not ready; the ready channel 4 reads non-zero
C9_Witness ==
    /\ kind = "strain"
    /\ pc = "command"
    /\ Records(out) # <<>>
    /\ 3 \in connected /\ 3 \notin readySet
    /\ 4 \in readySet
    /\ scale[3].OFFSET # raw[3]
    /\ readings[3] = 0
    /\ readings[4] # 0

\* C10: on the motion node, if the raw read of a real module fails in a fusion
\* cycle, that module's pitch, roll and yaw after the cycle equal their values
\* before the cycle and the Record re-emits them.
C10_FailedReadHoldsEstimate ==
    [][(IsSampleStep /\ kind = "motion" /\ Records(out') # <<>>) =>
        \A i \in readFailed' :
            /\ pitch'[i] = pitch[i]
            /\ roll'[i] = roll[i]
            /\ yaw'[i] = yaw[i]]_vars

\* C11: on the motion node each CALIBRATE line makes the node emit
\* CALIBRATING_SENSORS,START followed by CALIBRATING_SENSORS,COMPLETE and
\* nothing else, so that every START is matched by one COMPLETE.
C11_CalibratePair ==
    [][(IsCommandStep /\ kind = "motion" /\ dispatched' = W_CALIBRATE) =>
        out' = <<CALIBRATING_START, CALIBRATING_COMPLETE>>]_vars

\* C12: the sampling loop never halts because of a sensor or command error:
\* whatever lines arrive and whatever channels or modules are missing, the
\* node is never inside a call that does not return to loop(), so Records
\* keep coming and every accepted command gets its acknowledgement.
C12_LoopNeverHalts == pc # "blocked"

\* C13: on either node, also when commands are received and processed, the
\* time between two consecutive Records never exceeds the sampling interval
\* plus the duration of one loop() iteration: a check that does not fire
\* leaves less than one interval since the last Record, and a Record follows
\* the previous one by at most the interval plus the time since the check
\* before.
C13_BoundedGap ==
    [][IsSampleStep =>
        LET interval == IF kind = "strain" THEN 100 ELSE 10
        IN  /\ Records(out') = <<>> => currentTime' - lastSampleTime' < interval
            /\ (Records(out') # <<>> /\ stamps'[1] # NoStamp) =>
                   stamps'[2] - stamps'[1] <= interval + (currentTime' - currentTime)]_vars

\* C13 witness: a Record has just been emitted a second or more after the
\* previous one, because the iteration in between handled a command
C13_Witness ==
    /\ pc = "command"
    /\ Records(out) # <<>>
    /\ stamps[1] # NoStamp
    /\ stamps[2] - stamps[1] >= 1000
    /\ sent > 0

\* C14: for each real module every fusion cycle sets
\* yaw_new = yaw_old + (gz / 131.0) * dt with dt = 0.01 s, to the resolution
\* of the estimate; the step depends on gz alone (not on the accelerometer
\* values, pitch or roll), so yaw never decreases while gz is positive.
C14_YawIntegratesGyroZ ==
    [][(IsSampleStep /\ kind = "motion" /\ Records(out') # <<>>) =>
        \A i \in 1..2 :
            LET gz   == fused'[i].gz
                step == yaw'[i] - yaw[i]
            IN  /\ 2 * Abs(131 * step - gz * 100) <= 131
                /\ gz > 0 => yaw'[i] >= yaw[i]]_vars

\* C14 witness: module 1 has just integrated a positive gyro-Z rate for the
\* second time, on a sample whose accelerometer pulls pitch or roll away
C14_Witness ==
    /\ kind = "motion"
    /\ pc = "command"
    /\ Records(out) # <<>>
    /\ fused[1].gz > 0
    /\ yaw[1] = 20000
    /\ (pitch[1] # 0 \/ roll[1] # 0)

\* C15: in every MOTION Record the third module is (pitch2 + offset, roll2,
\* yaw2) of the second module of the same tick; the offset grows by 0.01 on
\* every tick, is reset to 0 on the tick where it would exceed 30.0, stays in
\* [0, 30], and is changed by nothing but a tick.
C15_OffsetSawtooth ==
    [][/\ (IsSampleStep /\ kind = "motion" /\ Records(out') # <<>>) =>
           /\ angle_offset' = IF angle_offset + 100 > 300000 THEN 0
                              ELSE angle_offset + 100
           /\ pitch'[3] = pitch'[2] + angle_offset'
           /\ roll'[3] = roll'[2]
           /\ yaw'[3] = yaw'[2]
           /\ SubSeq(Fields(out'[1]), 9, 11) =
                  << PrintFloat(pitch'[2] + angle_offset', 2, 4),
                     PrintFloat(roll'[2], 2, 4),
                     PrintFloat(yaw'[2], 2, 4) >>
       /\ ~(IsSampleStep /\ Records(out') # <<>>) => angle_offset' = angle_offset
       /\ angle_offset' >= 0 /\ angle_offset' <= 300000]_vars

\* C15 witness: the Record just emitted is the one on which the offset, having
\* reached 30.00, went back to 0
C15_Witness ==
    /\ kind = "motion"
    /\ pc = "command"
    /\ Records(out) # <<>>
    /\ angle_offset = 0
    /\ stamps[2] > 30000
    /\ pitch[3] = pitch[2]

\* a line without its leading and trailing whitespace
RECURSIVE TrimLeft(_)
TrimLeft(s) == IF s # <<>> /\ IsSpace(s[1]) THEN TrimLeft(Tail(s)) ELSE s

RECURSIVE TrimRight(_)
TrimRight(s) ==
    IF s # <<>> /\ IsSpace(s[Len(s)]) THEN TrimRight(SubSeq(s, 1, Len(s) - 1)) ELSE s

Trimmed(s) == TrimRight(TrimLeft(s))

\* C16: command decoding trims leading and trailing whitespace: a line that
\* is IDENTITY, TARE (strain node, all amplifiers wired) or CALIBRATE (motion
\* node) once trimmed is answered like the bare command, and an empty line
\* produces no frame and changes no scale.
C16_WhitespaceTrimmed ==
    [][IsCommandStep =>
        /\ Trimmed(dispatched') = W_IDENTITY =>
               out' = <<IF kind = "strain" THEN STRAIN_BANNER ELSE MOTION_BANNER>>
        /\ (kind = "strain" /\ connected = 1..8 /\ Trimmed(dispatched') = W_TARE) =>
               out' = <<TARE_COMPLETE>>
        /\ (kind = "motion" /\ connected = 1..2 /\ Trimmed(dispatched') = W_CALIBRATE) =>
               /\ Len(out') = 2
               /\ out'[1] = CALIBRATING_START
        /\ dispatched' = <<>> => (out' = <<>> /\ scale' = scale)]_vars

\* C17: a command is dispatched only once its terminating newline has been
\* received: whenever a line is handed to the dispatcher the receive buffer
\* held a newline, and the line is the bytes in front of it; bytes whose
\* newline has not arrived stay in the buffer.
C17_DispatchOnNewline ==
    [][(IsCommandStep /\ rx # <<>>) =>
        /\ IndexOf(rx, "\n", 0) >= 0
        /\ rx = dispatched' \o <<"\n">> \o rx']_vars

\* C18: on either node an IDENTITY line makes the node emit exactly one
\* frame, its boot banner, and changes no channel, estimator or scheduler
\* state.
C18_IdentityBanner ==
    [][(IsCommandStep /\ dispatched' = W_IDENTITY) =>
        /\ out' = <<IF kind = "strain" THEN STRAIN_BANNER ELSE MOTION_BANNER>>
        /\ pc' = "sample"
        /\ UNCHANGED <<scale, readings, pitch, roll, yaw, angle_offset,
                       lastSampleTime, currentTime>>]_vars

\* C18 witness: the motion node, with a non-trivial estimate, has just
\* answered IDENTITY with its banner
C18_Witness ==
    /\ kind = "motion"
    /\ pc = "sample"
    /\ dispatched = W_IDENTITY
    /\ out = <<MOTION_BANNER>>
    /\ yaw[1] # 0

\* C19: within one node sampling and command handling never interleave: the
\* sampling check applies no command (scales and receive buffer untouched,
\* nothing dispatched) and writes nothing but its one Record line; the command
\* check writes no Record, touches no reading or estimate and takes at most
\* one line out of the buffer; and a command check is reached only through
\* the sampling check of the same iteration.
C19_NoInterleaving ==
    [][/\ IsSampleStep =>
           /\ scale' = scale
           /\ rx' = rx
           /\ dispatched' = NoLine
           /\ out' = <<>> \/ (Len(out') = 1 /\ IsRecord(out'[1]))
       /\ IsCommandStep =>
           /\ Records(out') = <<>>
           /\ UNCHANGED <<readings, pitch, roll, yaw, angle_offset, lastSampleTime>>
           /\ IndexOf(rx, "\n", 0) >= 0 => rx = dispatched' \o <<"\n">> \o rx'
       /\ (pc' = "command" /\ pc # "command") => IsSampleStep
       /\ (pc = "command" /\ pc' # "command") => pc' \in {"sample", "blocked"}]_vars

\* C19 witness: two lines were waiting; the command check has dispatched the
\* first and the second is still in the buffer for the next iteration
C19_Witness ==
    /\ pc = "sample"
    /\ dispatched = W_IDENTITY
    /\ IndexOf(rx, "\n", 0) > 0
    /\ Len(out) = 1

\* C20: at boot the banner is the first frame, followed by one init line per
\* physical channel in ascending order, each in the initialized or the ERROR
\* form according to the channel's readiness, and on the motion node by one
\* CALIBRATING_SENSORS,START / CALIBRATING_SENSORS,COMPLETE pair; nothing
\* else is emitted before the boot sequence is complete.
C20_BootSequence ==
    [][pc = "setup" =>
        IF kind = "strain"
        THEN /\ Len(out') = 9
             /\ out'[1] = STRAIN_BANNER
             /\ \A c \in 1..8 :
                   out'[c + 1] = InitLine(W_Channel, c, scale'[c].OFFSET = raw[c])
        ELSE /\ Len(out') = 5
             /\ out'[1] = MOTION_BANNER
             /\ \A i \in 1..2 : out'[i + 1] = InitLine(W_Sensor, i, i \in connected)
             /\ out'[4] = CALIBRATING_START
             /\ out'[5] = CALIBRATING_COMPLETE]_vars

\* what a raw gyro rate g adds to an angle in 10 ms: (g / 131) * 0.01 degrees,
\* rounded to the resolution of the estimate
TenMsStep(g) == (2 * 100 * g + 131) \div (2 * 131)

\* C21: on the motion node every fusion cycle integrates the gyro rates over
\* the constant dt = 0.01 s, whatever time went by since the previous tick: on
\* every tick, late or on time, yaw advances by one 10 ms step of gz, and
\* pitch and roll are the 0.98 / 0.02 blend of the old angle advanced by one
\* 10 ms step of gy (gx) and the accelerometer angle.
C21_ConstantDt ==
    [][(IsSampleStep /\ kind = "motion" /\ Records(out') # <<>>) =>
        \A i \in 1..2 :
            LET s == fused'[i]
            IN  /\ yaw'[i] = yaw[i] + TenMsStep(s.gz)
                /\ 2 * Abs(100 * pitch'[i]
                           - (98 * (pitch[i] + TenMsStep(s.gy)) + 2 * AccelPitch(s))) <= 100
                /\ 2 * Abs(100 * roll'[i]
                           - (98 * (roll[i] + TenMsStep(s.gx)) + 2 * AccelRoll(s))) <= 100]_vars

\* C21 witness: the second Record came a second or more after the first, and
\* module 1, turning at 100 degrees/second about Z on both ticks, shows a yaw
\* of two 10 ms steps
C21_Witness ==
    /\ kind = "motion"
    /\ pc = "command"
    /\ Records(out) # <<>>
    /\ stamps[1] # NoStamp
    /\ stamps[2] - stamps[1] >= 1000
    /\ fused[1].gz = 13100
    /\ yaw[1] = 20000

====
